---- MODULE Spec2Model ----
(***************************************************************************)
(* Model of the study-hours tracker (src/src/app.py; src/app.py is the     *)
(* same application without the /stats route).                             *)
(*                                                                         *)
(* State: the two relational tables (User, StudySession), the signed       *)
(* Flask session of every client, the server clock (UTC and local date),   *)
(* and the response to the last request.  One action per route and method, *)
(* each covering the whole handler including the login_required gate.      *)
(* issued is a history variable: the last code printed for each email.     *)
(*                                                                         *)
(* Two specifications run the same actions over different inputs:          *)
(*   Spec         two issuable codes, one table row at a time, all         *)
(*                requests on one day (accounts, codes and sessions);      *)
(*   SpecRecords  one issuable code, every client logging in with its own  *)
(*                email, up to MaxRecords rows, server west or east of     *)
(*                Greenwich (records, listing, statistics).                *)
(*                                                                         *)
(* Time is kept at day granularity: every comparison the handlers make     *)
(* is against a midnight (date >= start_of_week) or an end of day          *)
(* (date <= 23:59:59.999999 of week_end), and weekday() only reads the     *)
(* day, so the day number of a timestamp decides every outcome.  Day 0 is  *)
(* a Monday.                                                               *)
(***************************************************************************)
EXTENDS Integers, Sequences, FiniteSets, TLC

VARIABLES users, study_sessions, session, utc_day, local_day, tz, resp, issued

vars == <<users, study_sessions, session, utc_day, local_day, tz, resp, issued>>

(* ------------------------------ bounds --------------------------------- *)

MaxRecords == 2
MaxDay == 7

Clients == {"c1", "c2"}
Emails == {"a@x", "b@x"}
Codes == {"111111", "222222"}
Subjects == {"math"}
Hours == {2}
StartDays == {6}

(* Python's None: an unset session key, a NULL column. *)
None == "None"
(* No '_user_id' key in the session: flask_login's anonymous user. *)
Anonymous == 0

(* ------------------------------ helpers -------------------------------- *)

SetMax(S) == CHOOSE m \in S : \A x \in S : x <= m

RECURSIVE SumHours(_, _)
SumHours(rows, ids) ==
    IF ids = {} THEN 0
    ELSE LET i == CHOOSE x \in ids : TRUE
         IN rows[i].hours + SumHours(rows, ids \ {i})

(* faulty variant: the lookup finds nobody *)
UserNotFound(email) == 0

(* User.query.filter_by(email=email).first(): the id of the row, 0 if none *)
UserByEmail(email) ==
    IF \E i \in DOMAIN users : users[i].email = email
    THEN CHOOSE i \in DOMAIN users : users[i].email = email
    ELSE 0

(* faulty variant: the login_required gate lets everyone through *)
AlwaysAuthenticated(c) == TRUE

(* current_user.is_authenticated, as login_required tests it *)
IsAuthenticated(c) == session[c].user_id # Anonymous

(* integer primary key of a new StudySession row: one past the largest id *)
NewRecordId ==
    IF DOMAIN study_sessions = {} THEN 1 ELSE SetMax(DOMAIN study_sessions) + 1

NoStats ==
    [daily_values |-> <<>>, weekly_labels |-> <<>>, weekly_values |-> <<>>,
     subject_data |-> <<>>]

(* The last request (client, route, the <id> of /delete/<id>) and what the
   client got back: status, redirect target or flashed message, and the
   template arguments of the two data pages. *)
Response(c, route, id, status, location, listing, stats) ==
    [client |-> c, route |-> route, id |-> id, status |-> status,
     location |-> location, sessions |-> listing, stats |-> stats]

(* login_manager.unauthorized(): redirect to login_view, nothing else *)
Unauthorized(c, route) ==
    /\ resp' = Response(c, route, 0, 302, "login", <<>>, NoStats)
    /\ UNCHANGED <<users, study_sessions, session, utc_day, local_day, tz, issued>>

(* The shape of the state: the columns of User and StudySession, the two
   keys a session holds, the two dates of the clock. *)
TypeOK ==
    /\ users \in Seq([email : Emails, current_otp : Codes \cup {None}])
    /\ DOMAIN study_sessions \subseteq 1..(MaxRecords + 1)
    /\ \A i \in DOMAIN study_sessions :
          /\ study_sessions[i].subject \in Subjects
          /\ study_sessions[i].hours \in Hours
          /\ study_sessions[i].date \in 0..MaxDay
          /\ study_sessions[i].user_id \in Nat
    /\ \A c \in Clients :
          /\ session[c].pending_email \in Emails \cup {None}
          /\ session[c].user_id \in {Anonymous} \cup DOMAIN users
    /\ utc_day \in 0..MaxDay
    /\ local_day \in 0..MaxDay
    /\ tz \in {"west", "utc", "east"}
    /\ issued \in [Emails -> Codes \cup {None}]

(* ------------------------------- Init ---------------------------------- *)

(* db.create_all() on an empty database, no cookie set, the server started
   on one of StartDays in one of the given zones *)
InitIn(zones) ==
    /\ users = <<>>
    /\ study_sessions = <<>>
    /\ session = [c \in Clients |-> [pending_email |-> None, user_id |-> Anonymous]]
    /\ utc_day \in StartDays
    /\ local_day = utc_day
    /\ tz \in zones
    /\ resp = Response("none", "none", 0, 0, "", <<>>, NoStats)
    /\ issued = [e \in Emails |-> None]

Init == InitIn({"utc"})

InitRecords == InitIn({"west", "east"})

(* ------------------------------ /login --------------------------------- *)

LoginGet(c) ==
    /\ resp' = Response(c, "login", 0, 200, "", <<>>, NoStats)
    /\ UNCHANGED <<users, study_sessions, session, utc_day, local_day, tz, issued>>

LoginStoreOtp(rows, uid, otp) == [rows EXCEPT ![uid].current_otp = otp]

LoginPost(c, email, otp) ==
    LET found == UserByEmail(email)
        rows == IF found = 0
                THEN Append(users, [email |-> email, current_otp |-> None])
                ELSE users
        uid == IF found = 0 THEN Len(users) + 1 ELSE found
    IN /\ users' = LoginStoreOtp(rows, uid, otp)
       /\ issued' = [issued EXCEPT ![email] = otp]
       /\ session' = [session EXCEPT ![c].pending_email = email]
       /\ resp' = Response(c, "login", 0, 302, "verify", <<>>, NoStats)
       /\ UNCHANGED <<study_sessions, utc_day, local_day, tz>>

(* ------------------------------ /verify -------------------------------- *)

VerifyGet(c) ==
    /\ resp' = Response(c, "verify", 0, 200, "", <<>>, NoStats)
    /\ UNCHANGED <<users, study_sessions, session, utc_day, local_day, tz, issued>>

(* faulty variant: any code is accepted for an existing account *)
OtpMatchesAnyCode(uid, entered_otp) == uid # 0

(* `user and user.current_otp == entered_otp`; a NULL code equals no string *)
OtpMatches(uid, entered_otp) ==
    /\ uid # 0
    /\ users[uid].current_otp = entered_otp

(* login_user(user): the user's id goes into the session *)
LoginUser(c, uid) == [session EXCEPT ![c].user_id = uid]

(* faulty variant: the code survives a successful verification *)
KeepOtp(uid) == users

(* user.current_otp = None; db.session.commit() *)
ClearOtp(uid) == [users EXCEPT ![uid].current_otp = None]

(* faulty variant: a wrong code invalidates the stored one *)
VerifyRejectedClearsOtp(c) ==
    LET uid == UserByEmail(session[c].pending_email)
    IN /\ users' = IF uid = 0 THEN users
                   ELSE [users EXCEPT ![uid].current_otp = None]
       /\ resp' = Response(c, "verify", 0, 200, "invalid", <<>>, NoStats)
       /\ UNCHANGED <<study_sessions, session, utc_day, local_day, tz, issued>>

(* the else branch: flash('Invalid OTP. Please try again.') and re-render *)
VerifyRejected(c) ==
    /\ resp' = Response(c, "verify", 0, 200, "invalid", <<>>, NoStats)
    /\ UNCHANGED <<users, study_sessions, session, utc_day, local_day, tz, issued>>

VerifyPost(c, entered_otp) ==
    LET email == session[c].pending_email
        uid == UserByEmail(email)
    IN IF OtpMatches(uid, entered_otp)
       THEN /\ session' = LoginUser(c, uid)
            /\ users' = ClearOtp(uid)
            /\ resp' = Response(c, "verify", 0, 302, "index", <<>>, NoStats)
            /\ UNCHANGED <<study_sessions, utc_day, local_day, tz, issued>>
       ELSE VerifyRejected(c)

(* --------------------------------- / ----------------------------------- *)

(* faulty variant: the query without its filter *)
AllRecords(uid) == DOMAIN study_sessions

(* StudySession.query.filter_by(user_id=current_user.id) *)
OwnRecords(uid) == {i \in DOMAIN study_sessions : study_sessions[i].user_id = uid}

(* .order_by(StudySession.date.desc()): rows of equal date in any order *)
IsDateDesc(s) ==
    \A i, j \in DOMAIN s : i < j => study_sessions[s[i]].date >= study_sessions[s[j]].date

Orderings(ids) ==
    {s \in [1..Cardinality(ids) -> ids] :
        /\ \A i \in ids : \E k \in DOMAIN s : s[k] = i
        /\ IsDateDesc(s)}

IndexGet(c) ==
    IF ~IsAuthenticated(c) THEN Unauthorized(c, "index")
    ELSE /\ \E s \in Orderings(OwnRecords(session[c].user_id)) :
               resp' = Response(c, "index", 0, 200, "", s, NoStats)
         /\ UNCHANGED <<users, study_sessions, session, utc_day, local_day, tz, issued>>

(* faulty variant: the row goes to the account of the pending email *)
NewStudySessionForPending(c, subject, hours) ==
    [subject |-> subject, hours |-> hours, date |-> utc_day,
     user_id |-> UserByEmail(session[c].pending_email)]

(* StudySession(subject=, hours=, user_id=current_user.id), date defaulting
   to datetime.utcnow *)
NewStudySession(c, subject, hours) ==
    [subject |-> subject, hours |-> hours, date |-> utc_day,
     user_id |-> session[c].user_id]

IndexPost(c, subject, hours) ==
    IF ~IsAuthenticated(c) THEN Unauthorized(c, "index")
    ELSE /\ study_sessions' =
                [i \in DOMAIN study_sessions \cup {NewRecordId} |->
                    IF i = NewRecordId THEN NewStudySession(c, subject, hours)
                    ELSE study_sessions[i]]
         /\ resp' = Response(c, "index", 0, 302, "index", <<>>, NoStats)
         /\ UNCHANGED <<users, session, utc_day, local_day, tz, issued>>

(* ------------------------------- /stats -------------------------------- *)

(* today - timedelta(days=today.weekday()) *)
StartOfWeek(today) == today - (today % 7)

(* session.date.weekday(): 0 for Monday *)
Weekday(d) == d % 7

(* the filter of chart 1: own rows with date >= start_of_week *)
CurrentWeekSessions(uid, start_of_week) ==
    {i \in OwnRecords(uid) : study_sessions[i].date >= start_of_week}

DailyValues(uid, today) ==
    LET rows == CurrentWeekSessions(uid, StartOfWeek(today))
    IN [k \in 1..7 |->
          SumHours(study_sessions,
                   {i \in rows : Weekday(study_sessions[i].date) = k - 1})]

(* chart 2: for i in range(4), the week starting 3-i weeks before this one *)
WeekStart(today, i) == StartOfWeek(today) - 7 * (3 - i)

(* the label names the first and the last day of the window *)
WeeklyLabels(today) ==
    [k \in 1..4 |-> <<WeekStart(today, k - 1), WeekStart(today, k - 1) + 6>>]

WeeklyValues(uid, today) ==
    [k \in 1..4 |->
        LET week_start == WeekStart(today, k - 1)
            week_end == week_start + 6
        IN SumHours(study_sessions,
                    {i \in OwnRecords(uid) :
                        /\ study_sessions[i].date >= week_start
                        /\ study_sessions[i].date <= week_end})]

(* chart 3: hours per subject over all own rows *)
SubjectData(uid) ==
    LET subjects == {study_sessions[i].subject : i \in OwnRecords(uid)}
    IN [s \in subjects |->
          SumHours(study_sessions,
                   {i \in OwnRecords(uid) : study_sessions[i].subject = s})]

Stats(c) ==
    IF ~IsAuthenticated(c) THEN Unauthorized(c, "stats")
    ELSE LET uid == session[c].user_id
         IN /\ resp' = Response(c, "stats", 0, 200, "", <<>>,
                          [daily_values |-> DailyValues(uid, local_day),
                           weekly_labels |-> WeeklyLabels(local_day),
                           weekly_values |-> WeeklyValues(uid, local_day),
                           subject_data |-> SubjectData(uid)])
            /\ UNCHANGED <<users, study_sessions, session, utc_day, local_day, tz, issued>>

(* ---------------------------- /delete/<id> ----------------------------- *)

(* faulty variant: a missing row is answered like a finished delete *)
DeleteNotFoundRedirects(c, id) ==
    /\ resp' = Response(c, "delete", id, 302, "index", <<>>, NoStats)
    /\ UNCHANGED <<users, study_sessions, session, utc_day, local_day, tz, issued>>

(* get_or_404 found no row: abort(404) *)
DeleteNotFound(c, id) ==
    /\ resp' = Response(c, "delete", id, 404, "", <<>>, NoStats)
    /\ UNCHANGED <<users, study_sessions, session, utc_day, local_day, tz, issued>>

(* faulty variant: no ownership check *)
MayDeleteAny(c, id) == TRUE

(* session_to_delete.user_id == current_user.id *)
MayDelete(c, id) == study_sessions[id].user_id = session[c].user_id

Delete(c, id) ==
    IF ~IsAuthenticated(c) THEN Unauthorized(c, "delete")
    ELSE IF id \notin DOMAIN study_sessions THEN DeleteNotFound(c, id)
    ELSE /\ study_sessions' =
                IF MayDelete(c, id)
                THEN [i \in DOMAIN study_sessions \ {id} |-> study_sessions[i]]
                ELSE study_sessions
         /\ resp' = Response(c, "delete", id, 302, "index", <<>>, NoStats)
         /\ UNCHANGED <<users, session, utc_day, local_day, tz, issued>>

(* ------------------------------ /logout -------------------------------- *)

(* logout_user(): '_user_id' leaves the session, pending_email stays *)
Logout(c) ==
    IF ~IsAuthenticated(c) THEN Unauthorized(c, "logout")
    ELSE /\ session' = [session EXCEPT ![c].user_id = Anonymous]
         /\ resp' = Response(c, "logout", 0, 302, "login", <<>>, NoStats)
         /\ UNCHANGED <<users, study_sessions, utc_day, local_day, tz, issued>>

(* ------------------------------- clock --------------------------------- *)

(* The next midnight passes.  West of Greenwich the UTC date changes first
   and the local date follows; east of it the local date changes first. *)
UtcMidnightNext ==
    \/ tz = "utc"
    \/ tz = "west" /\ local_day = utc_day
    \/ tz = "east" /\ local_day # utc_day

LocalMidnightNext ==
    \/ tz = "utc"
    \/ tz = "west" /\ local_day # utc_day
    \/ tz = "east" /\ local_day = utc_day

Tick ==
    /\ UtcMidnightNext => utc_day < MaxDay
    /\ LocalMidnightNext => local_day < MaxDay
    /\ utc_day' = IF UtcMidnightNext THEN utc_day + 1 ELSE utc_day
    /\ local_day' = IF LocalMidnightNext THEN local_day + 1 ELSE local_day
    /\ UNCHANGED <<users, study_sessions, session, tz, resp, issued>>

(* --------------------------- specifications ---------------------------- *)

(* Accounts, codes and sessions: every code can be issued and submitted;
   a row is created only into an empty table; all requests fall on one
   day. *)
Next ==
    \/ \E c \in Clients : LoginGet(c)
    \/ \E c \in Clients, e \in Emails, o \in Codes : LoginPost(c, e, o)
    \/ \E c \in Clients : VerifyGet(c)
    \/ \E c \in Clients, o \in Codes : VerifyPost(c, o)
    \/ \E c \in Clients : IndexGet(c)
    \/ \E c \in Clients, s \in Subjects, h \in Hours :
          (IsAuthenticated(c) => study_sessions = <<>>) /\ IndexPost(c, s, h)
    \/ \E c \in Clients : Stats(c)
    \/ \E c \in Clients : Delete(c, 1)
    \/ \E c \in Clients : Logout(c)

Spec == Init /\ [][Next]_vars

(* Records, listing and statistics: one code is issued and submitted, each
   client logs in with its own email; the table holds the ids 1..MaxRecords. *)
TheCode == CHOOSE o \in Codes : TRUE

EmailOf(c) == IF c = "c1" THEN "a@x" ELSE "b@x"

NextRecords ==
    \/ \E c \in Clients : LoginGet(c)
    \/ \E c \in Clients : LoginPost(c, EmailOf(c), TheCode)
    \/ \E c \in Clients : VerifyGet(c)
    \/ \E c \in Clients : VerifyPost(c, TheCode)
    \/ \E c \in Clients : IndexGet(c)
    \/ \E c \in Clients, s \in Subjects, h \in Hours :
          (IsAuthenticated(c) => NewRecordId <= MaxRecords) /\ IndexPost(c, s, h)
    \/ \E c \in Clients : Stats(c)
    \/ \E c \in Clients, id \in 1..MaxRecords : Delete(c, id)
    \/ \E c \in Clients : Logout(c)
    \/ Tick

SpecRecords == InitRecords /\ [][NextRecords]_vars

(* ------------------------------ properties ----------------------------- *)

(* The account row of an email, read off the table directly. *)
AccountId(email) ==
    IF \E i \in DOMAIN users : users[i].email = email
    THEN CHOOSE i \in DOMAIN users : users[i].email = email
    ELSE 0

(* The last code printed for the session's pending email, None if none. *)
LastIssued(c) ==
    IF session[c].pending_email = None THEN None
    ELSE issued[session[c].pending_email]

OwnedBy(uid) == {i \in DOMAIN study_sessions : study_sessions[i].user_id = uid}

ListingIsLast == resp.route = "index" /\ resp.status = 200

(* C1: the listing GET / returned to a session authenticated as account A
   holds every record whose owner is A once, and no record of another
   account. *)
ListingIsOwnRecords ==
    ListingIsLast =>
        LET uid == session[resp.client].user_id
        IN /\ {resp.sessions[k] : k \in DOMAIN resp.sessions} = OwnedBy(uid)
           /\ Len(resp.sessions) = Cardinality(OwnedBy(uid))

(* a non-empty listing was returned while another account has a record *)
ListingWitness ==
    /\ ListingIsLast
    /\ resp.sessions # <<>>
    /\ \E i \in DOMAIN study_sessions :
          study_sessions[i].user_id # session[resp.client].user_id

(* C2: GET /delete/<id> by a session authenticated as A, for an existing
   record owned by another account, leaves the record table and the account
   table as they were. *)
DeleteOfOthersRecordIsNoOp ==
    [][\A c \in Clients, id \in 1..MaxRecords :
          ( /\ session[c].user_id # Anonymous
            /\ id \in DOMAIN study_sessions
            /\ study_sessions[id].user_id # session[c].user_id
            /\ Delete(c, id) )
          => study_sessions' = study_sessions /\ users' = users]_vars

(* a delete aimed at another account's record was answered, the record is
   still there *)
DeleteOfOthersRecordWitness ==
    /\ resp.route = "delete"
    /\ resp.status = 302
    /\ session[resp.client].user_id # Anonymous
    /\ resp.id \in DOMAIN study_sessions
    /\ study_sessions[resp.id].user_id # session[resp.client].user_id

(* C3 as stated: after a POST /verify whose code differs from the last code
   issued for the session's pending email, the submitting session is not
   authenticated. *)
RejectedVerifyLeavesUnauthenticated ==
    [][\A c \in Clients, o \in Codes :
          (o # LastIssued(c) /\ VerifyPost(c, o))
          => session'[c].user_id = Anonymous]_vars

(* C3 amended: a POST /verify whose code differs from the last code issued
   for the session's pending email leaves the session's authentication as
   it was; a session that was not authenticated is not authenticated
   afterwards. *)
RejectedVerifyKeepsAuthentication ==
    [][\A c \in Clients, o \in Codes :
          (o # LastIssued(c) /\ VerifyPost(c, o))
          => /\ session'[c].user_id = session[c].user_id
             /\ users' = users]_vars

(* a verify was rejected for a session whose pending email has a code
   issued, stored for another session's later login, and the session is
   not authenticated *)
RejectedVerifyWitness ==
    /\ resp.route = "verify"
    /\ resp.location = "invalid"
    /\ session[resp.client].user_id = Anonymous
    /\ LastIssued(resp.client) # None
    /\ users[AccountId(session[resp.client].pending_email)].current_otp
          = LastIssued(resp.client)
    /\ \E c \in Clients \ {resp.client} :
          session[c].pending_email = session[resp.client].pending_email

(* C5: a POST /verify with the stored code authenticates the session as the
   pending email's account and clears the code; with the code cleared every
   POST /verify for that account is rejected, and only a POST /login for
   that email stores a code again. *)
CodeIsSingleUse ==
    [][ /\ \A c \in Clients, o \in Codes :
              VerifyPost(c, o) =>
                 LET uid == AccountId(session[c].pending_email)
                 IN /\ (uid # 0 /\ users[uid].current_otp = o)
                         => /\ session'[c].user_id = uid
                            /\ users'[uid].current_otp = None
                    /\ (uid # 0 /\ users[uid].current_otp = None)
                         => session' = session /\ users' = users
        /\ \A uid \in DOMAIN users :
              (users[uid].current_otp = None /\ users'[uid].current_otp # None)
              => \E c \in Clients, o \in Codes :
                     LoginPost(c, users[uid].email, o) ]_vars

(* a verify was rejected for an account whose code was used: the code is
   cleared and a session is authenticated as the account *)
UsedCodeWitness ==
    /\ resp.route = "verify"
    /\ resp.location = "invalid"
    /\ LastIssued(resp.client) # None
    /\ LET uid == AccountId(session[resp.client].pending_email)
       IN /\ users[uid].current_otp = None
          /\ \E c \in Clients : session[c].user_id = uid

(* C6: an account's stored code changes only by a POST /login for its email
   or by a POST /verify that submits it from a session whose pending email
   is that email; and such a POST /verify always authenticates. *)
CodeStaysValid ==
    [][ /\ \A uid \in DOMAIN users :
              users'[uid].current_otp # users[uid].current_otp
              => \/ \E c \in Clients, o \in Codes :
                       LoginPost(c, users[uid].email, o)
                 \/ \E c \in Clients :
                       /\ session[c].pending_email = users[uid].email
                       /\ users[uid].current_otp # None
                       /\ VerifyPost(c, users[uid].current_otp)
        /\ \A c \in Clients, o \in Codes :
              LET uid == AccountId(session[c].pending_email)
              IN (uid # 0 /\ users[uid].current_otp = o /\ VerifyPost(c, o))
                 => session'[c].user_id = uid ]_vars

(* a verify was rejected and the code issued for the pending email is still
   the stored one *)
CodeStaysValidWitness ==
    /\ resp.route = "verify"
    /\ resp.location = "invalid"
    /\ LastIssued(resp.client) # None
    /\ users[AccountId(session[resp.client].pending_email)].current_otp
          = LastIssued(resp.client)

(* C7: GET /delete/<id> by an authenticated session, for an id with no
   record, is answered 404 and leaves both tables as they were. *)
DeleteOfMissingIsNotFound ==
    [][\A c \in Clients, id \in 1..MaxRecords :
          ( /\ session[c].user_id # Anonymous
            /\ id \notin DOMAIN study_sessions
            /\ Delete(c, id) )
          => /\ resp'.status = 404
             /\ study_sessions' = study_sessions
             /\ users' = users]_vars

(* a delete was answered 404 while the table holds another record *)
DeleteOfMissingWitness ==
    /\ resp.route = "delete"
    /\ resp.status = 404
    /\ study_sessions # <<>>

(* C8: a POST /login adds one account when the email has none and no
   account when it has one, the email has an account afterwards, and no two
   accounts share an email. *)
OneAccountPerEmail ==
    [][ /\ \A c \in Clients, e \in Emails, o \in Codes :
              LoginPost(c, e, o) =>
                 /\ Len(users') = Len(users) +
                       (IF \E i \in DOMAIN users : users[i].email = e
                        THEN 0 ELSE 1)
                 /\ \E i \in DOMAIN users' : users'[i].email = e
        /\ \A i, j \in DOMAIN users' :
              i # j => users'[i].email # users'[j].email ]_vars

(* both emails have an account and the last login was for an email that
   already had one (the other client had asked for it before) *)
OneAccountPerEmailWitness ==
    /\ Len(users) = 2
    /\ resp.route = "login"
    /\ resp.status = 302
    /\ \A c \in Clients :
          session[c].pending_email = session[resp.client].pending_email

(* C9: every record's owner is an account of the table; a record that
   appears was created by POST / and is owned by the account the posting
   session is authenticated as; a record that stays keeps its owner. *)
RecordOwnerIsCreator ==
    [][ /\ \A i \in DOMAIN study_sessions' :
              study_sessions'[i].user_id \in DOMAIN users'
        /\ \A i \in DOMAIN study_sessions \cap DOMAIN study_sessions' :
              study_sessions'[i].user_id = study_sessions[i].user_id
        /\ \A i \in DOMAIN study_sessions' \ DOMAIN study_sessions :
              /\ resp'.route = "index"
              /\ session[resp'.client].user_id # Anonymous
              /\ study_sessions'[i].user_id = session[resp'.client].user_id
      ]_vars

(* a record was created by a session whose pending email belongs to another
   account than the one it is authenticated as *)
RecordOwnerWitness ==
    /\ resp.route = "index"
    /\ resp.status = 302
    /\ resp.location = "index"
    /\ \E i \in DOMAIN study_sessions :
          /\ study_sessions[i].user_id = session[resp.client].user_id
          /\ AccountId(session[resp.client].pending_email) # 0
          /\ AccountId(session[resp.client].pending_email)
                # study_sessions[i].user_id

(* C10: a request to /, /stats, /delete/<id> or /logout by a session that
   is not authenticated changes no table and no session; and a session
   becomes authenticated as an account only by its own POST /verify that
   submits the account's stored code while the account's email is its
   pending email. *)
OnlyVerifyAuthenticates ==
    [][ /\ \A c \in Clients :
              ( /\ session[c].user_id = Anonymous
                /\ \/ IndexGet(c)
                   \/ \E s \in Subjects, h \in Hours : IndexPost(c, s, h)
                   \/ Stats(c)
                   \/ \E id \in 1..MaxRecords : Delete(c, id)
                   \/ Logout(c) )
              => UNCHANGED <<users, study_sessions, session>>
        /\ \A c \in Clients :
              ( /\ session'[c].user_id # Anonymous
                /\ session'[c].user_id # session[c].user_id )
              => \E o \in Codes :
                    /\ AccountId(session[c].pending_email) = session'[c].user_id
                    /\ users[session'[c].user_id].current_otp = o
                    /\ VerifyPost(c, o) ]_vars

(* a request of a session that is not authenticated was sent to the login
   page while accounts and a record exist *)
UnauthenticatedWitness ==
    /\ resp.route \in {"index", "stats", "delete", "logout"}
    /\ resp.status = 302
    /\ resp.location = "login"
    /\ session[resp.client].user_id = Anonymous
    /\ users # <<>>
    /\ study_sessions # <<>>

(* C4: the seven daily buckets of GET /stats sum to the hours of the
   account's records whose timestamp lies in the Monday-to-Sunday week of
   the server's date (the week the response labels as its last one). *)
DailyBucketsSumToWeekHours ==
    (resp.route = "stats" /\ resp.status = 200) =>
        LET uid == session[resp.client].user_id
            d == resp.stats.daily_values
            week_start == resp.stats.weekly_labels[4][1]
            week_end == resp.stats.weekly_labels[4][2]
        IN d[1] + d[2] + d[3] + d[4] + d[5] + d[6] + d[7] =
              SumHours(study_sessions,
                       {i \in OwnedBy(uid) :
                           /\ study_sessions[i].date >= week_start
                           /\ study_sessions[i].date <= week_end})
====
